---- MODULE Spec2Model ----
(***************************************************************************)
(* Model of the Dockerfile analysis tool: the JSON extraction utility, the *)
(* three remote analysis operations of geminiService.ts with their static  *)
(* fallbacks, and the handlers of the App component that publish results.  *)
(*                                                                         *)
(* A text is a sequence of tokens.  A token is a record [q, s]: q = FALSE  *)
(* is the literal characters s, q = TRUE is the JSON string literal whose  *)
(* content is s (s in double quotes).  The text a sequence stands for is   *)
(* the concatenation of its tokens.  String contents hold no backtick, no  *)
(* brace and no quote, and the word json occurs only as the token JSONTAG, *)
(* so a match of the regular expressions of extractJSON on the characters  *)
(* is a match on the tokens.                                               *)
(***************************************************************************)
EXTENDS Integers, Sequences, FiniteSets, TLC

VARIABLES
  exText,      \* the text given to extractJSON
  exOut,       \* what extractJSON returned
  genAI,       \* TRUE when the client was built from a configured API key
  svcPc,       \* where the current call of an analysis operation stands
  svcOp,       \* the operation called
  svcInput,    \* its arguments
  svcResp,     \* what the remote call produced
  svcOutcome,  \* what the call settled with
  svcLogged,   \* TRUE when the call wrote to console.error
  svcCalls,    \* calls of analysis operations so far
  remoteCalls, \* calls of generateContent so far
  dockerFile,              \* App state: the uploaded Dockerfile or "null"
  requirementsFile,        \* App state: the uploaded requirements file
  isAnalyzing,             \* App state: analyzeFiles is in flight
  isTestingSpeed,          \* App state: testInternetSpeed is in flight
  isAnalyzingCompilation,  \* App state: analyzeCompilation is in flight
  results,                 \* App state: the results aggregate
  afPc,        \* analyzeFiles: the await it is suspended at
  afFiles,     \* analyzeFiles: the files its closure captured
  afNew,       \* analyzeFiles: its local newResults
  acPc,        \* analyzeCompilation: the await it is suspended at
  acFiles,     \* analyzeCompilation: the files its closure captured
  stPc,        \* testInternetSpeed: the await it is suspended at
  stTotalSize, \* testInternetSpeed: results.totalSize as its closure captured it
  stLast,      \* testInternetSpeed: what its last settled run did
  inFlight,    \* per handler: runs started and not yet through their finally
  runs         \* handlers started so far

exVars == <<exText, exOut>>
svcVars == <<genAI, svcPc, svcOp, svcInput, svcResp, svcOutcome, svcLogged,
             svcCalls, remoteCalls>>
appVars == <<dockerFile, requirementsFile, isAnalyzing, isTestingSpeed,
             isAnalyzingCompilation, results, afPc, afFiles, afNew, acPc,
             acFiles, stPc, stTotalSize, stLast, inFlight, runs>>
vars == <<exVars, svcVars, appVars>>

Lit(s) == [q |-> FALSE, s |-> s]
Str(s) == [q |-> TRUE, s |-> s]

(* FENCE stands for the three backtick characters of a Markdown fence. *)
FENCE == Lit("FENCE")
JSONTAG == Lit("json")
LBRACE == Lit("{")
RBRACE == Lit("}")
SPACE == Lit(" ")
PROSE == Lit("Here")

(* Bound: the longest text given to extractJSON on its own. *)
MaxTextLen == 6

ExtractAlphabet == {FENCE, JSONTAG, LBRACE, RBRACE, SPACE, PROSE}

SeqsUpTo(S, n) == UNION {[1..m -> S] : m \in 0..n}

Min(S) == CHOOSE x \in S : \A y \in S : x <= y
Max(S) == CHOOSE x \in S : \A y \in S : x >= y

IsSpace(t) == t = SPACE

(* String.prototype.trim: drop the white space at both ends. *)
Trim(s) ==
  LET keep == {i \in 1..Len(s) : ~IsSpace(s[i])}
  IN IF keep = {} THEN <<>> ELSE SubSeq(s, Min(keep), Max(keep))

Null == [found |-> FALSE, s |-> <<>>]
(* The output slot before extractJSON has been called. *)
NotCalled == [found |-> FALSE, s |-> <<PROSE>>]
Found(s) == [found |-> TRUE, s |-> s]

(* text.match(/FENCEjson([\s\S]*?)FENCE/): the leftmost opening fence tagged *)
(* json that has a closing fence after it, and the nearest such closing.   *)
FenceStarts(text) ==
  {i \in 1..(Len(text) - 1) :
     /\ text[i] = FENCE
     /\ text[i + 1] = JSONTAG
     /\ \E j \in (i + 2)..Len(text) : text[j] = FENCE}

FenceMatch(text) ==
  LET i == Min(FenceStarts(text))
      j == Min({k \in (i + 2)..Len(text) : text[k] = FENCE})
  IN SubSeq(text, i + 2, j - 1)

(* text.match(/{[\s\S]*}/): from the first { to the last } after it. *)
CurlyStarts(text) ==
  {i \in 1..Len(text) :
     /\ text[i] = LBRACE
     /\ \E j \in (i + 1)..Len(text) : text[j] = RBRACE}

(* Variant: the span ends at the first closing brace (a lazy match). *)
CurlyMatch_Lazy(text) ==
  LET i == Min(CurlyStarts(text))
      j == Min({k \in (i + 1)..Len(text) : text[k] = RBRACE})
  IN SubSeq(text, i, j)

CurlyMatch(text) ==
  LET i == Min(CurlyStarts(text))
      j == Max({k \in (i + 1)..Len(text) : text[k] = RBRACE})
  IN SubSeq(text, i, j)

(* Variant: the brace span is tried before the fenced block. *)
extractJSON_CurlyFirst(text) ==
  IF CurlyStarts(text) # {} THEN Found(CurlyMatch(text))
  ELSE IF FenceStarts(text) # {} THEN Found(Trim(FenceMatch(text)))
  ELSE Null

(* Variant: the text itself is returned when nothing is found. *)
extractJSON_RawOnMiss(text) ==
  IF FenceStarts(text) # {} THEN Found(Trim(FenceMatch(text)))
  ELSE IF CurlyStarts(text) # {} THEN Found(CurlyMatch(text))
  ELSE Found(text)

extractJSON(text) ==
  IF FenceStarts(text) # {} THEN Found(Trim(FenceMatch(text)))
  ELSE IF CurlyStarts(text) # {} THEN Found(CurlyMatch(text))
  ELSE Null

(***************************************************************************)
(* JSON values.  A value is a record [k, v]: k is the kind; v is the       *)
(* content: the text of a scalar, the sequence of elements of an array,    *)
(* the sequence of <<key, value>> members of an object in insertion order. *)
(***************************************************************************)
JNull == [k |-> "null", v |-> <<>>]
JUndefined == [k |-> "undefined", v |-> <<>>]
JBool(b) == [k |-> "bool", v |-> b]
JNum(n) == [k |-> "num", v |-> n]
JStr(s) == [k |-> "str", v |-> s]
JArr(e) == [k |-> "arr", v |-> e]
JObj(m) == [k |-> "obj", v |-> m]

LBRACKET == Lit("[")
RBRACKET == Lit("]")
COMMA == Lit(",")
COLON == Lit(":")
NULLTOK == Lit("null")
TRUETOK == Lit("true")
FALSETOK == Lit("false")
ZEROTOK == Lit("0")

ParseFail == [ok |-> FALSE, val |-> JNull, rest |-> <<>>]
ParseOk(val, rest) == [ok |-> TRUE, val |-> val, rest |-> rest]

(* Object member assignment: a repeated key keeps its place and takes the  *)
(* later value.                                                            *)
PutMember(m, key, val) ==
  IF \E i \in 1..Len(m) : m[i][1] = key
  THEN [i \in 1..Len(m) |-> IF m[i][1] = key THEN <<key, val>> ELSE m[i]]
  ELSE Append(m, <<key, val>>)

RECURSIVE ParseValue(_)
RECURSIVE ParseElements(_, _)
RECURSIVE ParseMembers(_, _)

(* The JSON grammar over tokens, white space already skipped. *)
ParseValue(t) ==
  IF t = <<>> THEN ParseFail
  ELSE LET h == t[1]
           r == Tail(t)
       IN IF h.q THEN ParseOk(JStr(h.s), r)
          ELSE IF h = NULLTOK THEN ParseOk(JNull, r)
          ELSE IF h = TRUETOK THEN ParseOk(JBool(TRUE), r)
          ELSE IF h = FALSETOK THEN ParseOk(JBool(FALSE), r)
          ELSE IF h = ZEROTOK THEN ParseOk(JNum(0), r)
          ELSE IF h = LBRACKET
               THEN IF r # <<>> /\ r[1] = RBRACKET
                    THEN ParseOk(JArr(<<>>), Tail(r))
                    ELSE ParseElements(r, <<>>)
          ELSE IF h = LBRACE
               THEN IF r # <<>> /\ r[1] = RBRACE
                    THEN ParseOk(JObj(<<>>), Tail(r))
                    ELSE ParseMembers(r, <<>>)
          ELSE ParseFail

ParseElements(t, acc) ==
  LET e == ParseValue(t)
  IN IF ~e.ok \/ e.rest = <<>> THEN ParseFail
     ELSE IF e.rest[1] = COMMA
          THEN ParseElements(Tail(e.rest), Append(acc, e.val))
     ELSE IF e.rest[1] = RBRACKET
          THEN ParseOk(JArr(Append(acc, e.val)), Tail(e.rest))
     ELSE ParseFail

ParseMembers(t, acc) ==
  IF Len(t) < 3 \/ ~t[1].q \/ t[2] # COLON THEN ParseFail
  ELSE LET e == ParseValue(SubSeq(t, 3, Len(t)))
       IN IF ~e.ok \/ e.rest = <<>> THEN ParseFail
          ELSE IF e.rest[1] = COMMA
               THEN ParseMembers(Tail(e.rest), PutMember(acc, t[1].s, e.val))
          ELSE IF e.rest[1] = RBRACE
               THEN ParseOk(JObj(PutMember(acc, t[1].s, e.val)), Tail(e.rest))
          ELSE ParseFail

(* JSON.parse: ok = FALSE is the SyntaxError it throws. *)
JSONParse(text) ==
  LET r == ParseValue(SelectSeq(text, LAMBDA t : ~IsSpace(t)))
  IN IF r.ok /\ r.rest = <<>>
     THEN [ok |-> TRUE, val |-> r.val]
     ELSE [ok |-> FALSE, val |-> JNull]

(* The JSON text of a value, without white space. *)
RECURSIVE Serialize(_)
RECURSIVE SerializeElements(_, _)
RECURSIVE SerializeMembers(_, _)

Serialize(val) ==
  IF val.k = "null" THEN <<NULLTOK>>
  ELSE IF val.k = "bool" THEN IF val.v THEN <<TRUETOK>> ELSE <<FALSETOK>>
  ELSE IF val.k = "num" THEN <<ZEROTOK>>
  ELSE IF val.k = "str" THEN <<Str(val.v)>>
  ELSE IF val.k = "arr"
       THEN <<LBRACKET>> \o SerializeElements(val.v, 1) \o <<RBRACKET>>
  ELSE <<LBRACE>> \o SerializeMembers(val.v, 1) \o <<RBRACE>>

SerializeElements(e, i) ==
  IF i > Len(e) THEN <<>>
  ELSE Serialize(e[i])
       \o (IF i < Len(e) THEN <<COMMA>> ELSE <<>>)
       \o SerializeElements(e, i + 1)

SerializeMembers(m, i) ==
  IF i > Len(m) THEN <<>>
  ELSE <<Str(m[i][1]), COLON>> \o Serialize(m[i][2])
       \o (IF i < Len(m) THEN <<COMMA>> ELSE <<>>)
       \o SerializeMembers(m, i + 1)

(***************************************************************************)
(* The static fallback datasets.                                           *)
(***************************************************************************)
DockerStep(instruction, description, impact, compilationTime, computeIntensity) ==
  JObj(<< <<"instruction", JStr(instruction)>>,
          <<"description", JStr(description)>>,
          <<"impact", JStr(impact)>>,
          <<"compilationTime", JStr(compilationTime)>>,
          <<"computeIntensity", JStr(computeIntensity)>> >>)

RequirementInfo(package, estimatedSize, description, compilationRequired, buildTime) ==
  JObj(<< <<"package", JStr(package)>>,
          <<"estimatedSize", JStr(estimatedSize)>>,
          <<"description", JStr(description)>>,
          <<"compilationRequired", JBool(compilationRequired)>>,
          <<"buildTime", JStr(buildTime)>> >>)

getFallbackDockerAnalysis ==
  JArr(<<
    DockerStep("FROM python:3.9-slim",
               "Sets the base image to Python 3.9 slim version",
               "Downloads ~45MB base image", "30s", "low"),
    DockerStep("WORKDIR /app",
               "Creates and sets working directory to /app",
               "Minimal impact, creates directory structure", "<1s", "low"),
    DockerStep("COPY requirements.txt .",
               "Copies requirements file to container",
               "Small file copy, ~1KB typically", "<1s", "low"),
    DockerStep("RUN pip install -r requirements.txt",
               "Installs Python dependencies",
               "Variable impact based on requirements", "5-15m", "high"),
    DockerStep("COPY . .",
               "Copies application source code",
               "Depends on application size", "10s", "low"),
    DockerStep("EXPOSE 8000",
               "Exposes port 8000 for the application",
               "No storage impact, configures networking", "<1s", "low"),
    DockerStep("CMD [\"python\", \"app.py\"]",
               "Sets the default command to run the application",
               "No additional impact, sets runtime behavior", "<1s", "low") >>)

(* Variant: the fallback without its last package. *)
getFallbackRequirementsAnalysis_FourItems ==
  JObj(<<
    <<"requirements", JArr(<<
       RequirementInfo("flask==2.3.3", "2.1 MB",
                       "Web framework for Python applications", FALSE, "N/A"),
       RequirementInfo("numpy==1.24.3", "15.8 MB",
                       "Scientific computing library", TRUE, "3-8m"),
       RequirementInfo("pandas==2.0.3", "28.4 MB",
                       "Data manipulation and analysis library", TRUE, "5-12m"),
       RequirementInfo("requests==2.31.0", "1.5 MB",
                       "HTTP library for API requests", FALSE, "N/A") >>)>>,
    <<"totalSize", JStr("51.0 MB")>> >>)

getFallbackRequirementsAnalysis ==
  JObj(<<
    <<"requirements", JArr(<<
       RequirementInfo("flask==2.3.3", "2.1 MB",
                       "Web framework for Python applications", FALSE, "N/A"),
       RequirementInfo("numpy==1.24.3", "15.8 MB",
                       "Scientific computing library", TRUE, "3-8m"),
       RequirementInfo("pandas==2.0.3", "28.4 MB",
                       "Data manipulation and analysis library", TRUE, "5-12m"),
       RequirementInfo("requests==2.31.0", "1.5 MB",
                       "HTTP library for API requests", FALSE, "N/A"),
       RequirementInfo("sqlalchemy==2.0.20", "3.2 MB",
                       "Database toolkit and ORM", FALSE, "N/A") >>)>>,
    <<"totalSize", JStr("51.0 MB")>> >>)

(* Variant: the fallback with an empty total. *)
getFallbackCompilationAnalysis_NoTotal ==
  JObj(<<
    <<"totalEstimatedTime", JStr("")>>,
    <<"bottlenecks", JArr(<<
       JStr("NumPy compilation from source (3-8 minutes)"),
       JStr("Pandas native extensions (5-12 minutes)"),
       JStr("Single-threaded pip install process"),
       JStr("No build cache utilization") >>)>>,
    <<"recommendations", JArr(<<
       JStr("Use multi-stage builds to cache compilation steps"),
       JStr("Consider using pre-built wheels when available"),
       JStr("Implement Docker layer caching in CI/CD"),
       JStr("Use BuildKit for parallel builds"),
       JStr("Pin exact versions to improve cache hits") >>)>>,
    <<"parallelizable", JBool(TRUE)>> >>)

getFallbackCompilationAnalysis ==
  JObj(<<
    <<"totalEstimatedTime", JStr("8-15 minutes")>>,
    <<"bottlenecks", JArr(<<
       JStr("NumPy compilation from source (3-8 minutes)"),
       JStr("Pandas native extensions (5-12 minutes)"),
       JStr("Single-threaded pip install process"),
       JStr("No build cache utilization") >>)>>,
    <<"recommendations", JArr(<<
       JStr("Use multi-stage builds to cache compilation steps"),
       JStr("Consider using pre-built wheels when available"),
       JStr("Implement Docker layer caching in CI/CD"),
       JStr("Use BuildKit for parallel builds"),
       JStr("Pin exact versions to improve cache hits") >>)>>,
    <<"parallelizable", JBool(TRUE)>> >>)

Ops == {"analyzeDockerfile", "analyzeRequirements", "analyzeCompilationTime"}

Fallback(op) ==
  CASE op = "analyzeDockerfile" -> getFallbackDockerAnalysis
    [] op = "analyzeRequirements" -> getFallbackRequirementsAnalysis
    [] op = "analyzeCompilationTime" -> getFallbackCompilationAnalysis

(***************************************************************************)
(* The analysis operations.  An outcome is what a call settles with: the   *)
(* value it returns, or threw = TRUE when an exception leaves it.          *)
(***************************************************************************)
Return(val) == [threw |-> FALSE, value |-> val]
Throw == [threw |-> TRUE, value |-> JUndefined]

(* try { body } catch { handler } *)
TryCatch(body, handler) == IF body.threw THEN handler ELSE body

(* The truth value JavaScript gives a value in a condition. *)
Truthy(val) ==
  CASE val.k = "null" -> FALSE
    [] val.k = "undefined" -> FALSE
    [] val.k = "bool" -> val.v
    [] val.k = "num" -> val.v # 0
    [] val.k = "str" -> val.v # ""
    [] OTHER -> TRUE

HasMember(val, key) ==
  val.k = "obj" /\ \E i \in 1..Len(val.v) : val.v[i][1] = key

(* parsed.key: the member of an object, undefined on any other value but   *)
(* null, where the access throws a TypeError.                              *)
GetProp(val, key) ==
  IF val.k = "null" THEN Throw
  ELSE IF HasMember(val, key)
       THEN Return(val.v[CHOOSE i \in 1..Len(val.v) : val.v[i][1] = key][2])
  ELSE Return(JUndefined)

(* extractJSON(text) || text *)
JsonTextOf(text) ==
  LET e == extractJSON(text)
  IN IF e.found /\ e.s # <<>> THEN e.s ELSE text

(* Variant: the catch around JSON.parse is missing. *)
analyzeDockerfile_OnText_NoCatch(text) ==
  LET p == JSONParse(JsonTextOf(text))
  IN IF ~p.ok THEN Throw
     ELSE Return(IF p.val.k = "arr" THEN p.val ELSE getFallbackDockerAnalysis)

(* Variant: any parsed value is returned. *)
analyzeDockerfile_OnText_NoShape(text) ==
  LET p == JSONParse(JsonTextOf(text))
  IN TryCatch(IF ~p.ok THEN Throw ELSE Return(p.val),
              Return(getFallbackDockerAnalysis))

analyzeDockerfile_OnText(text) ==
  LET p == JSONParse(JsonTextOf(text))
  IN TryCatch(
       IF ~p.ok THEN Throw
       ELSE Return(IF p.val.k = "arr" THEN p.val ELSE getFallbackDockerAnalysis),
       Return(getFallbackDockerAnalysis))

(* Variant: only the requirements member is looked at. *)
analyzeRequirements_OnText_RequirementsOnly(text) ==
  LET p == JSONParse(JsonTextOf(text))
      req == GetProp(p.val, "requirements")
  IN TryCatch(
       IF ~p.ok THEN Throw
       ELSE IF req.threw THEN Throw
       ELSE IF Truthy(req.value) THEN Return(p.val)
       ELSE Return(getFallbackRequirementsAnalysis),
       Return(getFallbackRequirementsAnalysis))

analyzeRequirements_OnText(text) ==
  LET p == JSONParse(JsonTextOf(text))
      req == GetProp(p.val, "requirements")
      size == GetProp(p.val, "totalSize")
  IN TryCatch(
       IF ~p.ok THEN Throw
       ELSE IF req.threw THEN Throw
       ELSE IF ~Truthy(req.value) THEN Return(getFallbackRequirementsAnalysis)
       ELSE IF size.threw THEN Throw
       ELSE IF Truthy(size.value) THEN Return(p.val)
       ELSE Return(getFallbackRequirementsAnalysis),
       Return(getFallbackRequirementsAnalysis))

analyzeCompilationTime_OnText(text) ==
  LET p == JSONParse(JsonTextOf(text))
      time == GetProp(p.val, "totalEstimatedTime")
  IN TryCatch(
       IF ~p.ok THEN Throw
       ELSE IF time.threw THEN Throw
       ELSE IF Truthy(time.value) THEN Return(p.val)
       ELSE Return(getFallbackCompilationAnalysis),
       Return(getFallbackCompilationAnalysis))

(* What an operation settles with once response.text() has returned text. *)
OnText(op, text) ==
  CASE op = "analyzeDockerfile" -> analyzeDockerfile_OnText(text)
    [] op = "analyzeRequirements" -> analyzeRequirements_OnText(text)
    [] op = "analyzeCompilationTime" -> analyzeCompilationTime_OnText(text)

(* Variant: the error is thrown on to the caller. *)
OnTransportError_Rethrow(op) == Throw

(* The outer catch: the error is logged and the fallback returned. *)
OnTransportError(op) == Return(Fallback(op))

(* Variant: an empty result when no credential is configured. *)
OnNoCredential_Null(op) == Return(JNull)

(* if (!genAI) return getFallback...() *)
OnNoCredential(op) == Return(Fallback(op))

(***************************************************************************)
(* The responses of the remote model offered to the operations.            *)
(***************************************************************************)
(* Bounds: the longest free-form response, the longest array in a          *)
(* response, the number of calls in a session.                             *)
MaxRespLen == 2
MaxElems == 2
MaxCalls == 2

(* An object of the members whose value is not undefined. *)
ObjOf(m) == JObj(SelectSeq(m, LAMBDA p : p[2] # JUndefined))

StepFull ==
  ObjOf(<< <<"instruction", JStr("FROM node:18")>>,
           <<"description", JStr("Sets the base image")>>,
           <<"impact", JStr("Downloads the base image")>> >>)
StepPartial == ObjOf(<< <<"instruction", JStr("RUN make")>> >>)
ItemFull ==
  ObjOf(<< <<"package", JStr("scipy==1.11.1")>>,
           <<"estimatedSize", JStr("36.0 MB")>>,
           <<"description", JStr("Scientific library")>> >>)

ScalarValues == {JNull, JNum(0), JStr("text"), JBool(TRUE), JBool(FALSE)}

ArrayValues ==
  {JArr(e) : e \in SeqsUpTo({StepFull, StepPartial, JNull}, MaxElems)}

ManifestValues ==
  {ObjOf(<< <<"requirements", r>>, <<"totalSize", t>> >>) :
     r \in {JUndefined, JNull, JArr(<<>>), JArr(<<ItemFull>>)},
     t \in {JUndefined, JStr(""), JStr("120.0 MB"), JStr("unknown")}}

CompilationValues ==
  {ObjOf(<< <<"totalEstimatedTime", t>>, <<"bottlenecks", b>>,
            <<"recommendations", r>>, <<"parallelizable", x>> >>) :
     t \in {JUndefined, JNum(0), JStr(""), JStr("12 minutes")},
     b \in {JUndefined, JArr(<<JStr("pip install")>>)},
     r \in {JUndefined, JArr(<<>>)},
     x \in {JUndefined, JBool(FALSE)}}

ResponseValues ==
  ScalarValues \cup ArrayValues \cup ManifestValues \cup CompilationValues

(* The ways the model presents a JSON text. *)
Bare(t) == t
Padded(t) == <<SPACE>> \o t \o <<SPACE>>
Fenced(t) == <<FENCE, JSONTAG, SPACE>> \o t \o <<SPACE, FENCE>>
FencedInProse(t) == <<PROSE, SPACE>> \o Fenced(t) \o <<SPACE, PROSE>>
InProse(t) == <<PROSE, SPACE>> \o t \o <<SPACE, PROSE>>
Truncated(t) == SubSeq(t, 1, Len(t) - 1)

Presentations(t) ==
  {Bare(t), Padded(t), Fenced(t), FencedInProse(t), InProse(t),
   Truncated(t), Fenced(Truncated(t))}

ResponseAlphabet ==
  {FENCE, JSONTAG, LBRACE, RBRACE, LBRACKET, RBRACKET, COMMA, COLON, SPACE,
   NULLTOK, ZEROTOK, Str("totalSize"), PROSE}

ResponseTexts ==
  SeqsUpTo(ResponseAlphabet, MaxRespLen)
    \cup UNION {Presentations(Serialize(val)) : val \in ResponseValues}

ComputeCapabilities ==
  {[cpu |-> "medium", memory |-> "medium", architecture |-> "x86_64",
    environment |-> "local"],
   [cpu |-> "extreme", memory |-> "low", architecture |-> "multi",
    environment |-> "ci_cd"]}

FileContents == {<<>>, <<PROSE, SPACE, PROSE>>}

(* The arguments of a call; an operation reads the ones it declares. *)
Inputs ==
  {[dockerfileContent |-> d, requirementsContent |-> d,
    computeCapabilities |-> c] :
     d \in FileContents, c \in ComputeCapabilities}

(***************************************************************************)
(* The state of the App component before any handler has run.              *)
(***************************************************************************)
(* A number field and an estimatedTime field that were never written. *)
NoNumber == [cls |-> "none", neg |-> FALSE, m |-> [hi |-> 0, lo |-> 0], e |-> 0]
NoEstimate == [form |-> "undefined", min |-> NoNumber, sec |-> NoNumber]

EmptyResults ==
  [dockerSteps |-> JUndefined, requirements |-> JUndefined,
   totalSize |-> JUndefined, internetSpeed |-> NoNumber,
   estimatedTime |-> NoEstimate, compilationAnalysis |-> JUndefined]

(* No run of testInternetSpeed has settled. *)
NoSpeedTest ==
  [path |-> "none", fetch |-> "none", ok |-> FALSE,
   internetSpeed |-> NoNumber, totalSize |-> JUndefined,
   estimateBy |-> "none"]

Handlers == {"analyzeFiles", "analyzeCompilation", "testInternetSpeed"}
NoneInFlight == [h \in Handlers |-> 0]

NoFiles == [dockerFile |-> "null", requirementsFile |-> "null"]
NoNewResults ==
  [dockerSteps |-> JUndefined, requirements |-> JUndefined,
   totalSize |-> JUndefined]

HandlersIdle ==
  /\ isAnalyzing = FALSE
  /\ isTestingSpeed = FALSE
  /\ isAnalyzingCompilation = FALSE
  /\ afPc = "idle"
  /\ afFiles = NoFiles
  /\ afNew = NoNewResults
  /\ acPc = "idle"
  /\ acFiles = NoFiles
  /\ stPc = "idle"
  /\ stTotalSize = JUndefined
  /\ stLast = NoSpeedTest
  /\ inFlight = NoneInFlight
  /\ runs = 0

AppIdle ==
  /\ dockerFile = "null"
  /\ requirementsFile = "null"
  /\ results = EmptyResults
  /\ HandlersIdle

(***************************************************************************)
(* The analysis operations called one after the other by one caller.      *)
(***************************************************************************)
NoResp == [kind |-> "none", text |-> <<>>]
ErrorResp(stage) == [kind |-> stage, text |-> <<>>]
TextResp(text) == [kind |-> "text", text |-> text]
NoOutcome == [threw |-> FALSE, value |-> JUndefined]
NoInput == CHOOSE i \in Inputs : TRUE

ServiceIdle ==
  /\ svcPc = "idle"
  /\ svcOp = "none"
  /\ svcInput = NoInput
  /\ svcResp = NoResp
  /\ svcOutcome = NoOutcome
  /\ svcLogged = FALSE
  /\ svcCalls = 0
  /\ remoteCalls = 0

Settle(resp, outcome, logged) ==
  /\ svcPc' = "settled"
  /\ svcResp' = resp
  /\ svcOutcome' = outcome
  /\ svcLogged' = logged

(* Variant: a call without a client that tries the remote model first. *)
CallWithoutCredential_Attempt(op, input) ==
  /\ svcPc = "idle"
  /\ svcCalls < MaxCalls
  /\ ~genAI
  /\ svcOp' = op
  /\ svcInput' = input
  /\ svcCalls' = svcCalls + 1
  /\ remoteCalls' = remoteCalls + 1
  /\ Settle(NoResp, OnNoCredential(op), FALSE)
  /\ UNCHANGED <<genAI, exVars, appVars>>

(* A call without a client: the fallback at once. *)
CallWithoutCredential(op, input) ==
  /\ svcPc = "idle"
  /\ svcCalls < MaxCalls
  /\ ~genAI
  /\ svcOp' = op
  /\ svcInput' = input
  /\ svcCalls' = svcCalls + 1
  /\ Settle(NoResp, OnNoCredential(op), FALSE)
  /\ UNCHANGED <<genAI, remoteCalls, exVars, appVars>>

(* A call up to its first await: getGenerativeModel, given the constant    *)
(* model name, builds the model object, the prompt is put together and     *)
(* generateContent is called.                                              *)
CallGenerateContent(op, input) ==
  /\ svcPc = "idle"
  /\ svcCalls < MaxCalls
  /\ genAI
  /\ svcOp' = op
  /\ svcInput' = input
  /\ svcCalls' = svcCalls + 1
  /\ remoteCalls' = remoteCalls + 1
  /\ svcPc' = "awaitGenerateContent"
  /\ svcLogged' = FALSE
  /\ UNCHANGED <<genAI, svcResp, svcOutcome, exVars, appVars>>

(* Variant: a rejected generateContent is called once more. *)
GenerateContentRejects_Retry ==
  /\ svcPc = "awaitGenerateContent"
  /\ remoteCalls <= svcCalls
  /\ remoteCalls' = remoteCalls + 1
  /\ UNCHANGED <<genAI, svcPc, svcOp, svcInput, svcResp, svcOutcome,
                 svcLogged, svcCalls, exVars, appVars>>

(* The await of generateContent rejects: the outer catch. *)
GenerateContentRejects ==
  /\ svcPc = "awaitGenerateContent"
  /\ Settle(ErrorResp("generateContent"), OnTransportError(svcOp), TRUE)
  /\ UNCHANGED <<genAI, svcOp, svcInput, svcCalls, remoteCalls, exVars,
                 appVars>>

GenerateContentResolves ==
  /\ svcPc = "awaitGenerateContent"
  /\ svcPc' = "awaitResponse"
  /\ UNCHANGED <<genAI, svcOp, svcInput, svcResp, svcOutcome, svcLogged,
                 svcCalls, remoteCalls, exVars, appVars>>

ResponseRejects ==
  /\ svcPc = "awaitResponse"
  /\ Settle(ErrorResp("response"), OnTransportError(svcOp), TRUE)
  /\ UNCHANGED <<genAI, svcOp, svcInput, svcCalls, remoteCalls, exVars,
                 appVars>>

ResponseTextThrows ==
  /\ svcPc = "awaitResponse"
  /\ Settle(ErrorResp("response.text"), OnTransportError(svcOp), TRUE)
  /\ UNCHANGED <<genAI, svcOp, svcInput, svcCalls, remoteCalls, exVars,
                 appVars>>

(* response.text() returns: extractJSON, JSON.parse and the shape test run *)
(* on the text; nothing on this path writes to the console.                *)
ResponseTextReturns(text) ==
  /\ svcPc = "awaitResponse"
  /\ Settle(TextResp(text), OnText(svcOp, text), FALSE)
  /\ UNCHANGED <<genAI, svcOp, svcInput, svcCalls, remoteCalls, exVars,
                 appVars>>

(* The caller takes the settled value. *)
CallerResumes ==
  /\ svcPc = "settled"
  /\ svcPc' = "idle"
  /\ svcOp' = "none"
  /\ svcInput' = NoInput
  /\ svcResp' = NoResp
  /\ svcOutcome' = NoOutcome
  /\ svcLogged' = FALSE
  /\ UNCHANGED <<genAI, svcCalls, remoteCalls, exVars, appVars>>

ServiceInit ==
  /\ genAI \in BOOLEAN
  /\ ServiceIdle
  /\ exText = <<>>
  /\ exOut = NotCalled
  /\ AppIdle

ServiceNext ==
  \/ \E op \in Ops : \E input \in Inputs : CallWithoutCredential(op, input)
  \/ \E op \in Ops : \E input \in Inputs : CallGenerateContent(op, input)
  \/ GenerateContentRejects
  \/ GenerateContentResolves
  \/ ResponseRejects
  \/ ResponseTextThrows
  \/ \E text \in ResponseTexts : ResponseTextReturns(text)
  \/ CallerResumes

ServiceSpec == ServiceInit /\ [][ServiceNext]_vars

Settled == svcPc = "settled"
SettledOnText == Settled /\ svcResp.kind = "text"
TransportStages == {"generateContent", "response", "response.text"}

Member(val, key) == val.v[CHOOSE i \in 1..Len(val.v) : val.v[i][1] = key][2]

(* The shape an operation expects, with usable required members. *)
ExpectedShape(op, val) ==
  CASE op = "analyzeDockerfile" -> val.k = "arr"
    [] op = "analyzeRequirements" ->
         /\ HasMember(val, "requirements")
         /\ HasMember(val, "totalSize")
         /\ Truthy(Member(val, "requirements"))
         /\ Truthy(Member(val, "totalSize"))
    [] op = "analyzeCompilationTime" ->
         /\ HasMember(val, "totalEstimatedTime")
         /\ Truthy(Member(val, "totalEstimatedTime"))

(* C1: with a credential, when the response text is valid JSON of the      *)
(* expected shape, bare or in a fenced json block, the operation returns   *)
(* the parsed value itself and not the fallback.                           *)
C1_ValidJsonVerbatim ==
  SettledOnText =>
    \A val \in ResponseValues :
       (/\ ExpectedShape(svcOp, val)
        /\ svcResp.text \in {Bare(Serialize(val)), Fenced(Serialize(val))})
       => svcOutcome = Return(val)

(* C2: without a credential every call of every operation returns the      *)
(* static fallback of the operation, whatever its arguments and however    *)
(* many calls came before.                                                 *)
C2_NoCredentialFallback ==
  (Settled /\ ~genAI) =>
    /\ ~svcOutcome.threw
    /\ svcOp = "analyzeDockerfile" =>
         svcOutcome.value = getFallbackDockerAnalysis
    /\ svcOp = "analyzeRequirements" =>
         svcOutcome.value = getFallbackRequirementsAnalysis
    /\ svcOp = "analyzeCompilationTime" =>
         svcOutcome.value = getFallbackCompilationAnalysis

C2_Witness ==
  /\ Settled
  /\ ~genAI
  /\ svcCalls = MaxCalls
  /\ svcOp = "analyzeCompilationTime"
  /\ svcInput.dockerfileContent # <<>>
  /\ svcInput.computeCapabilities.cpu = "extreme"
  /\ svcOutcome.value = getFallbackCompilationAnalysis

(* C3: with a credential, a failure of the remote call at any stage leaves *)
(* the call settled with the fallback; no exception leaves the operation.  *)
C3_TransportFailureFallback ==
  (Settled /\ genAI /\ svcResp.kind \in TransportStages) =>
    svcOutcome = Return(Fallback(svcOp))

C3_Witness ==
  /\ Settled
  /\ genAI
  /\ svcResp.kind = "generateContent"
  /\ svcOp = "analyzeRequirements"
  /\ svcOutcome = Return(getFallbackRequirementsAnalysis)

(* C4: with a credential, when the text selected for parsing (the          *)
(* extracted text, or the response itself when nothing was extracted) is   *)
(* not JSON, the operation returns its fallback.                           *)
C4_UnparseableFallback ==
  (SettledOnText /\ ~JSONParse(JsonTextOf(svcResp.text)).ok) =>
    svcOutcome = Return(Fallback(svcOp))

C4_Witness ==
  /\ SettledOnText
  /\ svcOp = "analyzeDockerfile"
  /\ extractJSON(svcResp.text).found
  /\ Len(JsonTextOf(svcResp.text)) > 3
  /\ ~JSONParse(JsonTextOf(svcResp.text)).ok
  /\ svcOutcome = Return(getFallbackDockerAnalysis)

(* The parsed value lacks what the operation requires. *)
LacksShape(op, val) ==
  CASE op = "analyzeDockerfile" -> val.k # "arr"
    [] op = "analyzeRequirements" ->
         ~HasMember(val, "requirements") \/ ~HasMember(val, "totalSize")
    [] op = "analyzeCompilationTime" -> ~HasMember(val, "totalEstimatedTime")

(* C5: when the parsed response lacks the required shape (not an array for *)
(* the recipe, a required member missing for the other two, or null or a   *)
(* scalar), the operation returns its fallback: not null, not the parsed   *)
(* value, not an exception.                                                *)
C5_ShapeFailureFallback ==
  SettledOnText =>
    LET p == JSONParse(JsonTextOf(svcResp.text))
    IN (p.ok /\ LacksShape(svcOp, p.val)) =>
         svcOutcome = Return(Fallback(svcOp))

C5_Witness ==
  /\ SettledOnText
  /\ svcOp = "analyzeRequirements"
  /\ LET p == JSONParse(JsonTextOf(svcResp.text))
     IN /\ p.ok
        /\ HasMember(p.val, "requirements")
        /\ Truthy(Member(p.val, "requirements"))
        /\ ~HasMember(p.val, "totalSize")
  /\ svcOutcome = Return(getFallbackRequirementsAnalysis)

IsArrayMember(val, key) == HasMember(val, key) /\ Member(val, key).k = "arr"

(* A returned value has every field its kind declares as required. *)
FullyPopulated(op, val) ==
  CASE op = "analyzeDockerfile" ->
         /\ val.k = "arr"
         /\ \A i \in 1..Len(val.v) :
              /\ HasMember(val.v[i], "instruction")
              /\ HasMember(val.v[i], "description")
              /\ HasMember(val.v[i], "impact")
    [] op = "analyzeRequirements" ->
         /\ IsArrayMember(val, "requirements")
         /\ HasMember(val, "totalSize")
    [] op = "analyzeCompilationTime" ->
         /\ HasMember(val, "totalEstimatedTime")
         /\ IsArrayMember(val, "bottlenecks")
         /\ IsArrayMember(val, "recommendations")
         /\ HasMember(val, "parallelizable")

(* C6: every value an operation returns is fully populated for its kind,   *)
(* whatever the remote response.                                           *)
C6_AlwaysFullyPopulated ==
  Settled => (~svcOutcome.threw /\ FullyPopulated(svcOp, svcOutcome.value))

(* The operation took its fallback: no client, a failed remote step, text  *)
(* that is not JSON, or JSON that fails the shape test.                    *)
FallbackTaken ==
  /\ Settled
  /\ \/ svcResp.kind # "text"
     \/ LET p == JSONParse(JsonTextOf(svcResp.text))
        IN ~p.ok \/ ~ExpectedShape(svcOp, p.val)

(* The package members of the items of an analysis of requirements. *)
PackagesOf(val) ==
  LET items == Member(val, "requirements").v
  IN [i \in 1..Len(items) |-> Member(items[i], "package")]

(* C16: each time analyzeRequirements takes its fallback, the value has    *)
(* totalSize 51.0 MB and exactly five items, in the order flask, numpy,    *)
(* pandas, requests, sqlalchemy.                                           *)
C16_ManifestFallbackFixed ==
  (FallbackTaken /\ svcOp = "analyzeRequirements") =>
    /\ ~svcOutcome.threw
    /\ IsArrayMember(svcOutcome.value, "requirements")
    /\ HasMember(svcOutcome.value, "totalSize")
    /\ Member(svcOutcome.value, "totalSize") = JStr("51.0 MB")
    /\ PackagesOf(svcOutcome.value) =
         <<JStr("flask==2.3.3"), JStr("numpy==1.24.3"), JStr("pandas==2.0.3"),
           JStr("requests==2.31.0"), JStr("sqlalchemy==2.0.20")>>

C16_Witness ==
  /\ FallbackTaken
  /\ svcOp = "analyzeRequirements"
  /\ genAI
  /\ svcCalls = MaxCalls
  /\ svcResp.kind = "text"
  /\ LET p == JSONParse(JsonTextOf(svcResp.text))
     IN /\ p.ok
        /\ IsArrayMember(p.val, "requirements")
        /\ HasMember(p.val, "totalSize")
        /\ Member(p.val, "totalSize") = JStr("")
  /\ Len(PackagesOf(svcOutcome.value)) = 5
  /\ Member(svcOutcome.value, "totalSize") = JStr("51.0 MB")

(* C17: whether there is a client is fixed when the module loads and never *)
(* changes; without one, no call of any operation, however many are made,  *)
(* reaches generateContent, and each settles with its fallback.            *)
C17_NoCredentialNeverRemote ==
  /\ [](~genAI =>
         /\ remoteCalls = 0
         /\ svcPc \in {"idle", "settled"}
         /\ Settled => svcOutcome = Return(Fallback(svcOp)))
  /\ [][genAI' = genAI]_vars

C17_Witness ==
  /\ ~genAI
  /\ Settled
  /\ svcCalls = MaxCalls
  /\ remoteCalls = 0
  /\ svcOp = "analyzeDockerfile"
  /\ svcOutcome = Return(getFallbackDockerAnalysis)

(* C18: with a client, every call of an operation calls generateContent    *)
(* exactly once, whatever the call settles with: the calls of              *)
(* generateContent made so far always number the calls of operations.      *)
C18_OneRemoteCallPerCall ==
  genAI => remoteCalls = svcCalls

C18_Witness ==
  /\ genAI
  /\ Settled
  /\ svcCalls = MaxCalls
  /\ remoteCalls = MaxCalls
  /\ svcResp.kind = "response"
  /\ svcOutcome = Return(Fallback(svcOp))

(* C19: when the response text is not JSON, or is JSON that lacks the      *)
(* required shape, the operation writes to the console before it returns   *)
(* its fallback.                                                           *)
C19_ShapeFailureLogged ==
  SettledOnText =>
    LET p == JSONParse(JsonTextOf(svcResp.text))
    IN (~p.ok \/ LacksShape(svcOp, p.val)) => svcLogged

(***************************************************************************)
(* Numbers of the speed test are IEEE 754 doubles.  A finite double is     *)
(* [cls |-> "finite", neg, m, e] with the value m * 2^e, negated when neg; *)
(* m is a natural number below 2^53 kept as [hi, lo] = hi * 2^30 + lo, and *)
(* is 0 with e = 0 for zero and has exactly 53 bits otherwise.  The sign   *)
(* of zero is not kept, and exponents stay far from the limits of the      *)
(* format.                                                                 *)
(***************************************************************************)
Base == 2^30

WZero == [hi |-> 0, lo |-> 0]
WOne == [hi |-> 0, lo |-> 1]
WOfInt(n) == [hi |-> n \div Base, lo |-> n % Base]
WToInt(a) == a.hi * Base + a.lo

WAdd(a, b) ==
  [hi |-> a.hi + b.hi + ((a.lo + b.lo) \div Base),
   lo |-> (a.lo + b.lo) % Base]

(* a - b for a >= b *)
WSub(a, b) ==
  IF a.lo < b.lo THEN [hi |-> a.hi - b.hi - 1, lo |-> a.lo - b.lo + Base]
  ELSE [hi |-> a.hi - b.hi, lo |-> a.lo - b.lo]

WLess(a, b) == a.hi < b.hi \/ (a.hi = b.hi /\ a.lo < b.lo)
WHalf(a) ==
  [hi |-> a.hi \div 2, lo |-> (a.lo \div 2) + (a.hi % 2) * (Base \div 2)]
WOdd(a) == a.lo % 2 = 1

(* a * k for a below 2^53 and k up to 128 *)
WTimesSmall(a, k) ==
  LET p0 == (a.lo % 2^15) * k
      p1 == (a.lo \div 2^15) * k + (p0 \div 2^15)
  IN [hi |-> a.hi * k + (p1 \div 2^15),
      lo |-> (p1 % 2^15) * 2^15 + (p0 % 2^15)]

(* a mod k for a small k *)
WModSmall(a, k) == ((a.hi % k) * (Base % k) + (a.lo % k)) % k

(* The number of bits of n, for 0 <= n < 2^31. *)
IntBitLen(n) == Cardinality({k \in 0..30 : 2^k <= n})

WBitLen(a) == IF a.hi > 0 THEN 30 + IntBitLen(a.hi) ELSE IntBitLen(a.lo)

(* a * 2^k, which stays below 2^61 *)
WShiftLeft(a, k) ==
  IF k = 0 THEN a
  ELSE IF k < 30
  THEN [hi |-> a.hi * 2^k + (a.lo \div 2^(30 - k)),
        lo |-> (a.lo % 2^(30 - k)) * 2^k]
  ELSE [hi |-> a.lo * 2^(k - 30), lo |-> 0]

(* a \div 2^k *)
WShiftRight(a, k) ==
  IF k = 0 THEN a
  ELSE IF k < 30
  THEN [hi |-> a.hi \div 2^k,
        lo |-> (a.lo \div 2^k) + (a.hi % 2^k) * 2^(30 - k)]
  ELSE IF k < 61 THEN [hi |-> 0, lo |-> a.hi \div 2^(k - 30)]
  ELSE WZero

(* a mod 2^k *)
WLowBits(a, k) ==
  IF k >= 61 THEN a
  ELSE IF k >= 30 THEN [hi |-> a.hi % 2^(k - 30), lo |-> a.lo]
  ELSE [hi |-> 0, lo |-> a.lo % 2^k]

(* 2^e mod k *)
RECURSIVE Pow2Mod(_, _)
Pow2Mod(e, k) == IF e = 0 THEN 1 % k ELSE (2 * Pow2Mod(e - 1, k)) % k

Abs(i) == IF i < 0 THEN -i ELSE i

Zero == [cls |-> "finite", neg |-> FALSE, m |-> WZero, e |-> 0]
Infinity == [cls |-> "infinite", neg |-> FALSE, m |-> WZero, e |-> 0]
MinusInfinity == [cls |-> "infinite", neg |-> TRUE, m |-> WZero, e |-> 0]
NaN == [cls |-> "NaN", neg |-> FALSE, m |-> WZero, e |-> 0]
IsFinite(x) == x.cls = "finite"
IsNaN(x) == x.cls = "NaN"
IsZero(x) == x.cls = "finite" /\ x.m = WZero

(* The double nearest to m * 2^e, negated when neg, a tie going to the     *)
(* even one; sticky says that the exact value lies above m * 2^e by less   *)
(* than 2^e, and then m has at least 55 bits.                              *)
RoundToDouble(neg, m, e, sticky) ==
  LET len == WBitLen(m)
      k == len - 53
      q == WShiftRight(m, k)
      rem == WLowBits(m, k)
      half == WShiftLeft(WOne, k - 1)
      up == WLess(half, rem) \/ (rem = half /\ (sticky \/ WOdd(q)))
      q1 == IF up THEN WAdd(q, WOne) ELSE q
  IN IF len = 0 THEN Zero
     ELSE IF len <= 53
     THEN [cls |-> "finite", neg |-> neg, m |-> WShiftLeft(m, 53 - len),
           e |-> e - (53 - len)]
     ELSE IF WBitLen(q1) = 54
     THEN [cls |-> "finite", neg |-> neg, m |-> WHalf(q1), e |-> e + k + 1]
     ELSE [cls |-> "finite", neg |-> neg, m |-> q1, e |-> e + k]

(* The double of an integer. *)
FromInt(i) == RoundToDouble(i < 0, WOfInt(Abs(i)), 0, FALSE)

(* The integer a double is, for an integer below 2^31. *)
IntOf(x) ==
  LET w == IF x.e >= 0 THEN WShiftLeft(x.m, x.e) ELSE WShiftRight(x.m, -x.e)
  IN IF x.neg THEN -WToInt(w) ELSE WToInt(w)

(* |a| < |b| for a and b that are not NaN *)
MagLess(a, b) ==
  IF ~IsFinite(a) THEN FALSE
  ELSE IF ~IsFinite(b) THEN TRUE
  ELSE IF IsZero(b) THEN FALSE
  ELSE IF IsZero(a) THEN TRUE
  ELSE a.e < b.e \/ (a.e = b.e /\ WLess(a.m, b.m))

(* a < b; a comparison with NaN is false. *)
NumLess(a, b) ==
  IF IsNaN(a) \/ IsNaN(b) THEN FALSE
  ELSE IF a.neg /\ ~b.neg THEN TRUE
  ELSE IF ~a.neg /\ b.neg THEN FALSE
  ELSE IF a.neg THEN MagLess(b, a)
  ELSE MagLess(a, b)

(* Seven more bits of the quotient of r by d, for r < d and a d of 53     *)
(* bits: the digit is estimated from the high parts, which falls short by  *)
(* at most one.                                                            *)
DivStep(q, r, d) ==
  LET R == WShiftLeft(r, 7)
      est == R.hi \div (d.hi + 1)
      rest == WSub(R, WTimesSmall(d, est))
  IN IF WLess(rest, d) THEN <<WAdd(WShiftLeft(q, 7), WOfInt(est)), rest>>
     ELSE <<WAdd(WShiftLeft(q, 7), WOfInt(est + 1)), WSub(rest, d)>>

(* 7 * n more bits of the quotient of qr[2] by d appended to qr[1], and    *)
(* the remainder that is left.                                             *)
RECURSIVE DivDigits(_, _, _)
DivDigits(qr, d, n) ==
  IF n = 0 THEN qr
  ELSE CHOOSE res \in {DivDigits(next, d, n - 1) :
                         next \in {DivStep(qr[1], qr[2], d)}} : TRUE

(* a / b *)
NumDiv(a, b) ==
  IF IsNaN(a) \/ IsNaN(b) THEN NaN
  ELSE IF ~IsFinite(a)
  THEN IF ~IsFinite(b) THEN NaN
       ELSE IF a.neg = b.neg THEN Infinity ELSE MinusInfinity
  ELSE IF ~IsFinite(b) THEN Zero
  ELSE IF IsZero(b)
  THEN IF IsZero(a) THEN NaN ELSE IF a.neg THEN MinusInfinity ELSE Infinity
  ELSE IF IsZero(a) THEN Zero
  ELSE LET first == IF WLess(a.m, b.m) THEN <<WZero, a.m>>
                    ELSE <<WOne, WSub(a.m, b.m)>>
           qr == DivDigits(first, b.m, 8)
       IN RoundToDouble(a.neg # b.neg, qr[1], a.e - b.e - 56, qr[2] # WZero)

(* The double nearest to n / d, for integers n and d. *)
Fin(n, d) == NumDiv(FromInt(n), FromInt(d))

(* a * k for an integer k in 1..128 *)
NumTimes(a, k) ==
  IF IsFinite(a) THEN RoundToDouble(a.neg, WTimesSmall(a.m, k), a.e, FALSE)
  ELSE a

(* a + b for finite a >= 0 and b >= 0 *)
NumPlus(a, b) ==
  LET big == IF MagLess(a, b) THEN b ELSE a
      small == IF MagLess(a, b) THEN a ELSE b
      gap == big.e - small.e
  IN IF IsZero(small) THEN big
     ELSE IF gap <= 7
     THEN RoundToDouble(FALSE, WAdd(WShiftLeft(big.m, gap), small.m),
                        small.e, FALSE)
     ELSE RoundToDouble(FALSE,
                        WAdd(WShiftLeft(big.m, 7),
                             WShiftRight(small.m, gap - 7)),
                        big.e - 7, WLowBits(small.m, gap - 7) # WZero)

MathMax(a, b) ==
  IF IsNaN(a) \/ IsNaN(b) THEN NaN ELSE IF NumLess(a, b) THEN b ELSE a

(* The whole part of |a| and whether a fraction is left, for a finite a    *)
(* with a negative exponent.                                               *)
Whole(a) == WShiftRight(a.m, -a.e)
HasFraction(a) == WLowBits(a.m, -a.e) # WZero

MathCeil(a) ==
  IF ~IsFinite(a) \/ a.e >= 0 THEN a
  ELSE IF a.neg \/ ~HasFraction(a) THEN RoundToDouble(a.neg, Whole(a), 0, FALSE)
  ELSE RoundToDouble(FALSE, WAdd(Whole(a), WOne), 0, FALSE)

MathFloor(a) ==
  IF ~IsFinite(a) \/ a.e >= 0 THEN a
  ELSE IF ~a.neg \/ ~HasFraction(a) THEN RoundToDouble(a.neg, Whole(a), 0, FALSE)
  ELSE RoundToDouble(TRUE, WAdd(Whole(a), WOne), 0, FALSE)

(* Math.round: to the nearest integer, a half goes up. *)
MathRound(a) ==
  IF ~IsFinite(a) \/ a.e >= 0 THEN a
  ELSE IF -a.e >= 54 THEN Zero
  ELSE LET rem == WLowBits(a.m, -a.e)
           half == WShiftLeft(WOne, -a.e - 1)
           away == IF a.neg THEN WLess(half, rem) ELSE ~WLess(rem, half)
       IN RoundToDouble(a.neg,
                        IF away THEN WAdd(Whole(a), WOne) ELSE Whole(a),
                        0, FALSE)

(* a % k for a >= 0 and an integer k > 0: the remainder is exact. *)
NumMod(a, k) ==
  IF ~IsFinite(a) THEN NaN
  ELSE IF NumLess(a, FromInt(k)) THEN a
  ELSE IF a.e >= 0
  THEN FromInt((WModSmall(a.m, k) * Pow2Mod(a.e, k)) % k)
  ELSE RoundToDouble(FALSE,
                     WAdd(WShiftLeft(WOfInt(WModSmall(Whole(a), k)), -a.e),
                          WLowBits(a.m, -a.e)),
                     a.e, FALSE)

(* Math.round(x * 10) / 10 *)
RoundToTenth(x) == NumDiv(MathRound(NumTimes(x, 10)), FromInt(10))

(* (endTime - startTime) / 1000, then (1 / duration) * 8 *)
MeasuredSpeed(ms) ==
  LET duration == NumDiv(FromInt(ms), FromInt(1000))
  IN NumTimes(NumDiv(FromInt(1), duration), 8)

(* Variant: the measured speed without the floor of 1 Mbps. *)
FlooredSpeed_NoFloor(ms) == MeasuredSpeed(ms)

(* Math.max(speed, 1) *)
FlooredSpeed(ms) == MathMax(MeasuredSpeed(ms), Fin(1, 1))

(* 25 + Math.random() * 50, for the fraction r in [0, 1) that Math.random() *)
(* returned.                                                               *)
SimulatedSpeed(r) == NumPlus(FromInt(25), NumTimes(r, 50))

(***************************************************************************)
(* The characters of the totalSize strings that occur, and parseFloat of   *)
(* the digits and points that replace(/[^\d.]/g, '') leaves of them.       *)
(***************************************************************************)
CharsOf(str) ==
  CASE str = "51.0 MB" -> <<"5", "1", ".", "0", " ", "M", "B">>
    [] str = "120.0 MB" -> <<"1", "2", "0", ".", "0", " ", "M", "B">>
    [] str = "unknown" -> <<"u", "n", "k", "n", "o", "w", "n">>
    [] str = "1.5 GB (1536 MB)" ->
         <<"1", ".", "5", " ", "G", "B", " ", "(", "1", "5", "3", "6", " ", "M",
           "B", ")">>
    [] str = "8 MB" -> <<"8", " ", "M", "B">>
    [] str = "2.1 MB" -> <<"2", ".", "1", " ", "M", "B">>
    [] str = "15.8 MB" -> <<"1", "5", ".", "8", " ", "M", "B">>
    [] str = "28.4 MB" -> <<"2", "8", ".", "4", " ", "M", "B">>
    [] str = "1.5 MB" -> <<"1", ".", "5", " ", "M", "B">>
    [] str = "3.2 MB" -> <<"3", ".", "2", " ", "M", "B">>

Digits == {"0", "1", "2", "3", "4", "5", "6", "7", "8", "9"}

DigitValue(c) ==
  CASE c = "0" -> 0 [] c = "1" -> 1 [] c = "2" -> 2 [] c = "3" -> 3
    [] c = "4" -> 4 [] c = "5" -> 5 [] c = "6" -> 6 [] c = "7" -> 7
    [] c = "8" -> 8 [] c = "9" -> 9

(* str.replace(/[^\d.]/g, '') *)
KeepDigitsAndPoints(chars) ==
  SelectSeq(chars, LAMBDA c : c \in Digits \/ c = ".")

RECURSIVE DigitsValue(_, _)
DigitsValue(chars, acc) ==
  IF chars = <<>> THEN acc
  ELSE DigitsValue(Tail(chars), 10 * acc + DigitValue(chars[1]))

RECURSIVE Pow10(_)
Pow10(k) == IF k = 0 THEN 1 ELSE 10 * Pow10(k - 1)

(* The longest prefix of chars made of characters of S. *)
RECURSIVE TakeWhile(_, _)
TakeWhile(chars, S) ==
  IF chars = <<>> \/ chars[1] \notin S THEN <<>>
  ELSE <<chars[1]>> \o TakeWhile(Tail(chars), S)

(* parseFloat of a string of digits and points: the integer digits, then   *)
(* one point and the digits after it; NaN when no digit is read.           *)
ParseFloat(chars) ==
  LET int == TakeWhile(chars, Digits)
      rest == SubSeq(chars, Len(int) + 1, Len(chars))
      frac == IF rest # <<>> /\ rest[1] = "." THEN TakeWhile(Tail(rest), Digits)
              ELSE <<>>
  IN IF int = <<>> /\ frac = <<>> THEN NaN
     ELSE Fin(DigitsValue(int \o frac, 0), Pow10(Len(frac)))

(***************************************************************************)
(* extractJSON on its own: any text up to MaxTextLen tokens, one call.     *)
(***************************************************************************)
ExtractInit ==
  /\ exText \in SeqsUpTo(ExtractAlphabet, MaxTextLen)
  /\ exOut = NotCalled
  /\ genAI = FALSE
  /\ ServiceIdle
  /\ AppIdle

CallExtractJSON ==
  /\ exOut = NotCalled
  /\ exOut' = extractJSON(exText)
  /\ UNCHANGED <<exText, svcVars, appVars>>

ExtractNext == CallExtractJSON

ExtractSpec == ExtractInit /\ [][ExtractNext]_vars

(* The first fenced json block of text opens at i and closes at j. *)
FencedBlockAt(text, i, j) ==
  /\ text[i] = FENCE
  /\ text[i + 1] = JSONTAG
  /\ text[j] = FENCE
  /\ \A k \in 1..(i - 1) : ~(text[k] = FENCE /\ text[k + 1] = JSONTAG)
  /\ \A k \in (i + 2)..(j - 1) : text[k] # FENCE

HasFencedBlock(text) ==
  \E i \in 1..Len(text) : \E j \in (i + 2)..Len(text) : FencedBlockAt(text, i, j)

HasBraceSpan(text) ==
  \E a \in 1..Len(text) : \E b \in (a + 1)..Len(text) :
     text[a] = LBRACE /\ text[b] = RBRACE

(* r is inner without a white space at either end. *)
IsTrimOf(r, inner) ==
  \E a \in 0..Len(inner) : \E b \in 0..(Len(inner) - a) :
     /\ r = SubSeq(inner, a + 1, Len(inner) - b)
     /\ \A k \in 1..a : IsSpace(inner[k])
     /\ \A k \in (Len(inner) - b + 1)..Len(inner) : IsSpace(inner[k])
     /\ r # <<>> => (~IsSpace(r[1]) /\ ~IsSpace(r[Len(r)]))

(* C7: for a text holding a fenced json block, extractJSON returns the      *)
(* interior of the first such block, trimmed, whatever brace span the text *)
(* holds before, after or around the fence.                                *)
C7_FencedBlockFirst ==
  exOut # NotCalled =>
    \A i \in 1..Len(exText) : \A j \in (i + 2)..Len(exText) :
       FencedBlockAt(exText, i, j) =>
         /\ exOut.found
         /\ IsTrimOf(exOut.s, SubSeq(exText, i + 2, j - 1))

C7_Witness ==
  /\ exOut # NotCalled
  /\ HasFencedBlock(exText)
  /\ HasBraceSpan(exText)
  /\ exOut.found
  /\ exOut.s = <<PROSE>>

(* C8: for a text with no fenced json block that holds a { followed later  *)
(* by a }, extractJSON returns the span from the first { of the text to    *)
(* the last } of the text, inclusive, balanced or not.                     *)
C8_FirstToLastBrace ==
  (exOut # NotCalled /\ ~HasFencedBlock(exText) /\ HasBraceSpan(exText)) =>
    LET first == Min({a \in 1..Len(exText) : exText[a] = LBRACE})
        last == Max({b \in 1..Len(exText) : exText[b] = RBRACE})
    IN exOut = Found(SubSeq(exText, first, last))

C8_Witness ==
  /\ exOut # NotCalled
  /\ ~HasFencedBlock(exText)
  /\ exOut.found
  /\ Len(exOut.s) = 4
  /\ exOut.s[2] = RBRACE
  /\ exOut.s[3] = LBRACE
  /\ Len(exText) > 4

(* C9: for a text with neither a fenced json block nor a { followed by a   *)
(* }, extractJSON returns null.                                            *)
C9_AbsenceIsNull ==
  (exOut # NotCalled /\ ~HasFencedBlock(exText) /\ ~HasBraceSpan(exText)) =>
    exOut = Null

C9_Witness ==
  /\ exOut = Null
  /\ \E a \in 1..Len(exText) : \E b \in (a + 1)..Len(exText) :
        exText[a] = RBRACE /\ exText[b] = LBRACE

C9_WitnessEmpty ==
  /\ exOut = Null
  /\ exText = <<>>

(***************************************************************************)
(* The App component: its three handlers, suspended at each await, and the *)
(* results aggregate they write.                                           *)
(***************************************************************************)
(* Bound: the number of handler runs in a session. *)
MaxRuns == 3

(* Elapsed milliseconds between the two Date.now() calls. *)
Durations == {-5, 0, 800, 925, 996, 1000, 60000}

(* The status of the response fetch resolves with. *)
HttpStatuses == {200, 404}

(* response.ok *)
IsOk(status) == status >= 200 /\ status <= 299

(* Values of Math.random(). *)
Randoms == {Fin(0, 1), Fin(1, 2), Fin(9999, 10000)}

CompilationFull ==
  ObjOf(<< <<"totalEstimatedTime", JStr("12 minutes")>>,
           <<"bottlenecks", JArr(<<JStr("pip install")>>)>>,
           <<"recommendations", JArr(<<>>)>>,
           <<"parallelizable", JBool(FALSE)>> >>)

AppTotalSizes ==
  {JStr("120.0 MB"), JStr("unknown"), JStr("1.5 GB (1536 MB)"),
   JStr("8 MB"), JBool(TRUE)}

(* The responses of the remote model offered to the handlers. *)
AppResponseTexts(op) ==
  CASE op = "analyzeDockerfile" -> {Fenced(Serialize(JArr(<<StepFull>>)))}
    [] op = "analyzeRequirements" ->
         {Serialize(ObjOf(<< <<"requirements", JArr(<<ItemFull>>)>>,
                             <<"totalSize", t>> >>)) : t \in AppTotalSizes}
    [] op = "analyzeCompilationTime" -> {Serialize(CompilationFull)}

(* What a call of an analysis operation can settle with. *)
ServiceOutcomes(op) ==
  IF ~genAI THEN {OnNoCredential(op)}
  ELSE {OnTransportError(op)}
         \cup {OnText(op, text) : text \in AppResponseTexts(op)}

EmptyEstimate == [form |-> "empty", min |-> NoNumber, sec |-> NoNumber]

(* Variant: the estimate always in seconds. *)
RenderTime_AlwaysSeconds(t) ==
  [form |-> "seconds", min |-> NoNumber, sec |-> MathCeil(t)]

(* The template strings of the estimate: n seconds, or m minutes s. *)
RenderTime(t) ==
  IF NumLess(t, Fin(60, 1))
  THEN [form |-> "seconds", min |-> NoNumber, sec |-> MathCeil(t)]
  ELSE [form |-> "minsec", min |-> MathFloor(NumDiv(t, Fin(60, 1))),
        sec |-> MathCeil(NumMod(t, 60))]

(* parseFloat(results.totalSize.replace(/[^\d.]/g, '')) *)
SizeInMB(totalSize) == ParseFloat(KeepDigitsAndPoints(CharsOf(totalSize.v)))

(* The estimate of testInternetSpeed for a string totalSize. *)
EstimatedTime(totalSize, internetSpeed) ==
  RenderTime(NumDiv(NumTimes(SizeInMB(totalSize), 8), internetSpeed))

(* results.totalSize.replace throws when totalSize is not a string. *)
ReplaceThrows(totalSize) == Truthy(totalSize) /\ totalSize.k # "str"

(* A run of a handler starts, and ends in its finally block. *)
Started(h) == inFlight' = [inFlight EXCEPT ![h] = @ + 1]
Finished(h) == inFlight' = [inFlight EXCEPT ![h] = @ - 1]

SelectFile(type) ==
  /\ \/ type = "docker" /\ dockerFile' = "file" /\ UNCHANGED requirementsFile
     \/ type = "requirements" /\ requirementsFile' = "file"
          /\ UNCHANGED dockerFile
  /\ <<dockerFile, requirementsFile>>' # <<dockerFile, requirementsFile>>
  /\ UNCHANGED <<isAnalyzing, isTestingSpeed, isAnalyzingCompilation, results,
                 afPc, afFiles, afNew, acPc, acFiles, stPc, stTotalSize,
                 stLast, inFlight, runs, exVars, svcVars>>

CurrentFiles ==
  [dockerFile |-> dockerFile, requirementsFile |-> requirementsFile]

(* Variant: the Analyze button is not disabled while analyzeFiles runs. *)
AnalyzeFilesClick_NotDisabled ==
  /\ (dockerFile # "null" \/ requirementsFile # "null")
  /\ runs < MaxRuns
  /\ runs' = runs + 1
  /\ isAnalyzing' = TRUE
  /\ Started("analyzeFiles")
  /\ afNew' = NoNewResults
  /\ afFiles' = CurrentFiles
  /\ afPc' = IF dockerFile # "null" THEN "dockerFile.text"
             ELSE "requirementsFile.text"
  /\ UNCHANGED <<dockerFile, requirementsFile, isTestingSpeed,
                 isAnalyzingCompilation, results, acPc, acFiles, stPc,
                 stTotalSize, stLast, exVars, svcVars>>

(* analyzeFiles up to its first await. *)
AnalyzeFilesClick ==
  /\ (dockerFile # "null" \/ requirementsFile # "null")
  /\ ~isAnalyzing
  /\ runs < MaxRuns
  /\ runs' = runs + 1
  /\ isAnalyzing' = TRUE
  /\ Started("analyzeFiles")
  /\ afNew' = NoNewResults
  /\ afFiles' = CurrentFiles
  /\ afPc' = IF dockerFile # "null" THEN "dockerFile.text"
             ELSE "requirementsFile.text"
  /\ UNCHANGED <<dockerFile, requirementsFile, isTestingSpeed,
                 isAnalyzingCompilation, results, acPc, acFiles, stPc,
                 stTotalSize, stLast, exVars, svcVars>>

(* The catch and finally of analyzeFiles. *)
AnalyzeFilesFails ==
  /\ isAnalyzing' = FALSE
  /\ Finished("analyzeFiles")
  /\ afPc' = "idle"
  /\ afFiles' = NoFiles
  /\ afNew' = NoNewResults
  /\ UNCHANGED results

(* setResults(prev => ({...prev, ...newResults})) and finally. *)
AnalyzeFilesPublishes(new) ==
  /\ results' =
       [results EXCEPT
          !.dockerSteps =
             IF afFiles.dockerFile # "null" THEN new.dockerSteps ELSE @,
          !.requirements =
             IF afFiles.requirementsFile # "null" THEN new.requirements ELSE @,
          !.totalSize =
             IF afFiles.requirementsFile # "null" THEN new.totalSize ELSE @]
  /\ isAnalyzing' = FALSE
  /\ Finished("analyzeFiles")
  /\ afPc' = "idle"
  /\ afFiles' = NoFiles
  /\ afNew' = NoNewResults

AfUnchanged ==
  UNCHANGED <<dockerFile, requirementsFile, isTestingSpeed,
              isAnalyzingCompilation, acPc, acFiles, stPc, stTotalSize,
              stLast, runs, exVars, svcVars>>

AfDockerTextResolves ==
  /\ afPc = "dockerFile.text"
  /\ afPc' = "analyzeDockerfile"
  /\ UNCHANGED <<isAnalyzing, inFlight, results, afFiles, afNew>>
  /\ AfUnchanged

AfDockerTextRejects ==
  /\ afPc = "dockerFile.text"
  /\ AnalyzeFilesFails
  /\ AfUnchanged

(* Variant: the steps are published as soon as analyzeDockerfile settles. *)
AfAnalyzeDockerfileSettles_PublishEarly(outcome) ==
  /\ afPc = "analyzeDockerfile"
  /\ LET new == [afNew EXCEPT !.dockerSteps = outcome.value]
     IN IF outcome.threw THEN AnalyzeFilesFails
        ELSE IF afFiles.requirementsFile # "null"
             THEN /\ afNew' = new
                  /\ afPc' = "requirementsFile.text"
                  /\ results' = [results EXCEPT !.dockerSteps = outcome.value]
                  /\ UNCHANGED <<isAnalyzing, inFlight, afFiles>>
        ELSE AnalyzeFilesPublishes(new)
  /\ AfUnchanged

AfAnalyzeDockerfileSettles(outcome) ==
  /\ afPc = "analyzeDockerfile"
  /\ LET new == [afNew EXCEPT !.dockerSteps = outcome.value]
     IN IF outcome.threw THEN AnalyzeFilesFails
        ELSE IF afFiles.requirementsFile # "null"
             THEN /\ afNew' = new
                  /\ afPc' = "requirementsFile.text"
                  /\ UNCHANGED <<isAnalyzing, inFlight, results, afFiles>>
        ELSE AnalyzeFilesPublishes(new)
  /\ AfUnchanged

AfRequirementsTextResolves ==
  /\ afPc = "requirementsFile.text"
  /\ afPc' = "analyzeRequirements"
  /\ UNCHANGED <<isAnalyzing, inFlight, results, afFiles, afNew>>
  /\ AfUnchanged

AfRequirementsTextRejects ==
  /\ afPc = "requirementsFile.text"
  /\ AnalyzeFilesFails
  /\ AfUnchanged

AfAnalyzeRequirementsSettles(outcome) ==
  /\ afPc = "analyzeRequirements"
  /\ LET req == GetProp(outcome.value, "requirements")
         size == GetProp(outcome.value, "totalSize")
     IN IF outcome.threw \/ req.threw \/ size.threw THEN AnalyzeFilesFails
        ELSE AnalyzeFilesPublishes(
               [afNew EXCEPT !.requirements = req.value,
                             !.totalSize = size.value])
  /\ AfUnchanged

(* analyzeCompilation up to its first await. *)
AnalyzeCompilationClick ==
  /\ (dockerFile # "null" \/ requirementsFile # "null")
  /\ ~isAnalyzingCompilation
  /\ runs < MaxRuns
  /\ runs' = runs + 1
  /\ isAnalyzingCompilation' = TRUE
  /\ Started("analyzeCompilation")
  /\ acFiles' = CurrentFiles
  /\ acPc' = IF dockerFile # "null" THEN "dockerFile.text"
             ELSE "requirementsFile.text"
  /\ UNCHANGED <<dockerFile, requirementsFile, isAnalyzing, isTestingSpeed,
                 results, afPc, afFiles, afNew, stPc, stTotalSize, stLast,
                 exVars, svcVars>>

(* Variant: the catch of analyzeCompilation without the finally block. *)
AnalyzeCompilationFails_NoFinally ==
  /\ UNCHANGED isAnalyzingCompilation
  /\ Finished("analyzeCompilation")
  /\ acPc' = "idle"
  /\ acFiles' = NoFiles
  /\ UNCHANGED results

(* The catch and finally of analyzeCompilation. *)
AnalyzeCompilationFails ==
  /\ isAnalyzingCompilation' = FALSE
  /\ Finished("analyzeCompilation")
  /\ acPc' = "idle"
  /\ acFiles' = NoFiles
  /\ UNCHANGED results

AcUnchanged ==
  UNCHANGED <<dockerFile, requirementsFile, isAnalyzing, isTestingSpeed, afPc,
              afFiles, afNew, stPc, stTotalSize, stLast, runs, exVars,
              svcVars>>

AcDockerTextResolves ==
  /\ acPc = "dockerFile.text"
  /\ acPc' = IF acFiles.requirementsFile # "null" THEN "requirementsFile.text"
             ELSE "analyzeCompilationTime"
  /\ UNCHANGED <<isAnalyzingCompilation, inFlight, results, acFiles>>
  /\ AcUnchanged

AcDockerTextRejects ==
  /\ acPc = "dockerFile.text"
  /\ AnalyzeCompilationFails
  /\ AcUnchanged

AcRequirementsTextResolves ==
  /\ acPc = "requirementsFile.text"
  /\ acPc' = "analyzeCompilationTime"
  /\ UNCHANGED <<isAnalyzingCompilation, inFlight, results, acFiles>>
  /\ AcUnchanged

AcRequirementsTextRejects ==
  /\ acPc = "requirementsFile.text"
  /\ AnalyzeCompilationFails
  /\ AcUnchanged

(* Variant: setResults({ compilationAnalysis }), without the spread of the *)
(* previous results.                                                       *)
AcAnalyzeCompilationTimeSettles_NoSpread(outcome) ==
  /\ acPc = "analyzeCompilationTime"
  /\ IF outcome.threw THEN AnalyzeCompilationFails
     ELSE /\ results' =
               [EmptyResults EXCEPT !.compilationAnalysis = outcome.value]
          /\ isAnalyzingCompilation' = FALSE
          /\ Finished("analyzeCompilation")
          /\ acPc' = "idle"
          /\ acFiles' = NoFiles
  /\ AcUnchanged

(* setResults(prev => ({ ...prev, compilationAnalysis })) and finally. *)
AcAnalyzeCompilationTimeSettles(outcome) ==
  /\ acPc = "analyzeCompilationTime"
  /\ IF outcome.threw THEN AnalyzeCompilationFails
     ELSE /\ results' = [results EXCEPT !.compilationAnalysis = outcome.value]
          /\ isAnalyzingCompilation' = FALSE
          /\ Finished("analyzeCompilation")
          /\ acPc' = "idle"
          /\ acFiles' = NoFiles
  /\ AcUnchanged

(* testInternetSpeed up to the await of fetch. *)
TestInternetSpeedClick ==
  /\ ~isTestingSpeed
  /\ runs < MaxRuns
  /\ runs' = runs + 1
  /\ isTestingSpeed' = TRUE
  /\ Started("testInternetSpeed")
  /\ stPc' = "fetch"
  /\ stTotalSize' = results.totalSize
  /\ UNCHANGED <<dockerFile, requirementsFile, isAnalyzing,
                 isAnalyzingCompilation, results, afPc, afFiles, afNew, acPc,
                 acFiles, stLast, exVars, svcVars>>

StUnchanged ==
  UNCHANGED <<dockerFile, requirementsFile, isAnalyzing,
              isAnalyzingCompilation, afPc, afFiles, afNew, acPc, acFiles,
              runs, exVars, svcVars>>

SpeedTestDone ==
  /\ isTestingSpeed' = FALSE
  /\ Finished("testInternetSpeed")
  /\ stPc' = "idle"
  /\ stTotalSize' = JUndefined

(* The catch of testInternetSpeed: a simulated speed; estimatedTime stays. *)
(* The values the try block of testInternetSpeed computes after fetch     *)
(* resolved in ms milliseconds, with a totalSize that is a string or       *)
(* falsy.                                                                  *)
TryBlock(ms, totalSize) ==
  LET internetSpeed == FlooredSpeed(ms)
  IN [internetSpeed |-> internetSpeed,
      rounded |-> RoundToTenth(internetSpeed),
      estimatedTime |-> IF Truthy(totalSize)
                        THEN EstimatedTime(totalSize, internetSpeed)
                        ELSE EmptyEstimate]

(* The value the catch block stores for r = Math.random(). *)
CatchBlock(r) == RoundToTenth(SimulatedSpeed(r))

(* The values of the total sizes a handler of Next can hold that are a     *)
(* string or falsy.                                                        *)
HeldTotalSizes ==
  {JUndefined, Member(getFallbackRequirementsAnalysis, "totalSize")}
    \cup {t \in AppTotalSizes : ~ReplaceThrows(t)}

(* TryBlock and CatchBlock for the inputs of Next, computed once. *)
TryBlocks ==
  {<<ms, t, TryBlock(ms, t)>> : ms \in Durations, t \in HeldTotalSizes}
CatchBlocks == {<<r, CatchBlock(r)>> : r \in Randoms}

TryBlockOf(ms, totalSize) ==
  IF ms \in Durations /\ totalSize \in HeldTotalSizes
  THEN (CHOOSE b \in TryBlocks : b[1] = ms /\ b[2] = totalSize)[3]
  ELSE TryBlock(ms, totalSize)

CatchBlockOf(r) ==
  IF r \in Randoms THEN (CHOOSE b \in CatchBlocks : b[1] = r)[2]
  ELSE CatchBlock(r)

SpeedTestFallback(r, fetch, ok) ==
  /\ results' = [results EXCEPT !.internetSpeed = CatchBlockOf(r)]
  /\ stLast' =
       [path |-> "catch", fetch |-> fetch, ok |-> ok,
        internetSpeed |-> NoNumber, totalSize |-> stTotalSize,
        estimateBy |-> IF results.estimatedTime = NoEstimate THEN "none"
                       ELSE "earlier"]
  /\ SpeedTestDone

(* fetch resolved after ms milliseconds with a response of the given       *)
(* status, which the handler does not read, and the try block ran to its   *)
(* end.                                                                    *)
FetchResolves(ms, status) ==
  /\ stPc = "fetch"
  /\ ~ReplaceThrows(stTotalSize)
  /\ \E try \in {TryBlockOf(ms, stTotalSize)} :
       /\ results' =
            [results EXCEPT !.internetSpeed = try.rounded,
                            !.estimatedTime = try.estimatedTime]
       /\ stLast' =
            [path |-> "try", fetch |-> "resolved", ok |-> IsOk(status),
             internetSpeed |-> try.internetSpeed, totalSize |-> stTotalSize,
             estimateBy |-> "this"]
  /\ SpeedTestDone
  /\ StUnchanged

(* fetch resolved and totalSize.replace threw inside the try block. *)
FetchResolvesReplaceThrows(r, status) ==
  /\ stPc = "fetch"
  /\ ReplaceThrows(stTotalSize)
  /\ SpeedTestFallback(r, "resolved", IsOk(status))
  /\ StUnchanged

FetchRejects(r) ==
  /\ stPc = "fetch"
  /\ SpeedTestFallback(r, "rejected", FALSE)
  /\ StUnchanged

Init ==
  /\ genAI \in BOOLEAN
  /\ ServiceIdle
  /\ exText = <<>>
  /\ exOut = NotCalled
  /\ AppIdle

Next ==
  \/ \E type \in {"docker", "requirements"} : SelectFile(type)
  \/ AnalyzeFilesClick
  \/ AfDockerTextResolves
  \/ AfDockerTextRejects
  \/ \E outcome \in ServiceOutcomes("analyzeDockerfile") :
        AfAnalyzeDockerfileSettles(outcome)
  \/ AfRequirementsTextResolves
  \/ AfRequirementsTextRejects
  \/ \E outcome \in ServiceOutcomes("analyzeRequirements") :
        AfAnalyzeRequirementsSettles(outcome)
  \/ AnalyzeCompilationClick
  \/ AcDockerTextResolves
  \/ AcDockerTextRejects
  \/ AcRequirementsTextResolves
  \/ AcRequirementsTextRejects
  \/ \E outcome \in ServiceOutcomes("analyzeCompilationTime") :
        AcAnalyzeCompilationTimeSettles(outcome)
  \/ TestInternetSpeedClick
  \/ \E ms \in Durations : \E status \in HttpStatuses :
        FetchResolves(ms, status)
  \/ \E r \in Randoms : \E status \in HttpStatuses :
        FetchResolvesReplaceThrows(r, status)
  \/ \E r \in Randoms : FetchRejects(r)

Spec == Init /\ [][Next]_vars

(* C10: once a speed test has settled, on the measured path or on the      *)
(* simulated one and for every elapsed time, the stored internetSpeed is a *)
(* number (not NaN) that is at least 1.                                    *)
C10_SpeedAtLeastOne ==
  results.internetSpeed # NoNumber =>
    /\ ~IsNaN(results.internetSpeed)
    /\ ~NumLess(results.internetSpeed, Fin(1, 1))

C10_Witness ==
  /\ stPc = "idle"
  /\ results.internetSpeed = Fin(1, 1)
  /\ results.estimatedTime.form = "minsec"
  /\ results.totalSize = JStr("120.0 MB")

(***************************************************************************)
(* The speed test, seen through what its last settled run did.             *)
(***************************************************************************)
SimulatedPath == stLast.path = "catch"
MeasuredPath == stLast.path = "try"
MeasuredWithSize == MeasuredPath /\ stLast.totalSize.k = "str"

(* C11: when fetch fails, the speed the test stores, rounded to one        *)
(* decimal, is at least 25 and strictly less than 75.                      *)
C11_SimulatedInRange ==
  (SimulatedPath /\ stLast.fetch = "rejected") =>
    /\ ~NumLess(results.internetSpeed, Fin(25, 1))
    /\ NumLess(results.internetSpeed, Fin(75, 1))

(* The speeds the catch block can store. *)
SimulatedSpeeds == {RoundToTenth(SimulatedSpeed(r)) : r \in Randoms}

(* C12: a fetch that resolves with a non-success status is handled as a    *)
(* rejected fetch is: the run takes the catch block and the stored speed   *)
(* is the simulated one, not one computed from the elapsed time.           *)
C12_NonSuccessIsSimulated ==
  (stLast.fetch = "resolved" /\ ~stLast.ok) =>
    /\ SimulatedPath
    /\ results.internetSpeed \in SimulatedSpeeds

(* The characters before the first digit or point are dropped. *)
RECURSIVE DropUntil(_, _)
DropUntil(chars, S) ==
  IF chars = <<>> \/ chars[1] \in S THEN chars ELSE DropUntil(Tail(chars), S)

(* The first run of digits and points of a string, and its value. *)
FirstNumericRun(chars) ==
  TakeWhile(DropUntil(chars, Digits \cup {"."}), Digits \cup {"."})
LeadingNumber(chars) == ParseFloat(FirstNumericRun(chars))

(* The string holds one number only. *)
SingleNumber(chars) ==
  /\ KeepDigitsAndPoints(chars) = FirstNumericRun(chars)
  /\ IsFinite(LeadingNumber(chars))

(* (S * 8) / T *)
Elapsed(S, T) == NumDiv(NumTimes(S, 8), T)

IsInteger(x) == IsFinite(x) /\ MathFloor(x) = x

(* C13: for a totalSize of S megabytes and a measured speed of T Mbps the  *)
(* estimate comes from elapsed = (S * 8) / T: n seconds with n the         *)
(* whole seconds that cover elapsed when elapsed is under 60, and m        *)
(* minutes s seconds with whole m and s covering elapsed otherwise;        *)
(* 51.0 MB at 8.0 Mbps is 51 seconds and 120.0 MB at 10.0 Mbps is 1m 36s.  *)
C13_EstimateRendering ==
  (MeasuredWithSize /\ SingleNumber(CharsOf(stLast.totalSize.v))) =>
    LET S == LeadingNumber(CharsOf(stLast.totalSize.v))
        T == stLast.internetSpeed
        elapsed == Elapsed(S, T)
        e == results.estimatedTime
    IN /\ NumLess(elapsed, Fin(60, 1)) =>
            /\ e.form = "seconds"
            /\ IsInteger(e.sec)
            /\ NumLess(FromInt(IntOf(e.sec) - 1), elapsed)
            /\ ~NumLess(e.sec, elapsed)
       /\ ~NumLess(elapsed, Fin(60, 1)) =>
            /\ e.form = "minsec"
            /\ IsInteger(e.min)
            /\ IsInteger(e.sec)
            /\ NumLess(FromInt(60 * IntOf(e.min) + IntOf(e.sec) - 1), elapsed)
            /\ ~NumLess(FromInt(60 * IntOf(e.min) + IntOf(e.sec)), elapsed)
       /\ (stLast.totalSize = JStr("51.0 MB") /\ T = Fin(8, 1)) =>
            e = [form |-> "seconds", min |-> NoNumber, sec |-> Fin(51, 1)]
       /\ (stLast.totalSize = JStr("120.0 MB") /\ T = Fin(10, 1)) =>
            e = [form |-> "minsec", min |-> Fin(1, 1), sec |-> Fin(36, 1)]

C13_Witness ==
  /\ stPc = "idle"
  /\ MeasuredPath
  /\ stLast.totalSize = JStr("120.0 MB")
  /\ stLast.internetSpeed = Fin(10, 1)
  /\ results.estimatedTime =
       [form |-> "minsec", min |-> Fin(1, 1), sec |-> Fin(36, 1)]

AbsentEstimate == {NoEstimate, EmptyEstimate}

(* C14: when totalSize is a string without a leading number, a measured    *)
(* speed test stores no estimate: the field is absent or empty, never a    *)
(* string made from NaN.                                                   *)
C14_NoEstimateWithoutNumber ==
  (MeasuredWithSize /\ IsNaN(LeadingNumber(CharsOf(stLast.totalSize.v)))) =>
    results.estimatedTime \in AbsentEstimate

(* C15: the size the estimate is computed from is the leading number of    *)
(* totalSize; digits and points later in the string do not change it.      *)
C15_LeadingNumberOnly ==
  (MeasuredWithSize /\ IsFinite(LeadingNumber(CharsOf(stLast.totalSize.v)))) =>
    /\ SizeInMB(stLast.totalSize) = LeadingNumber(CharsOf(stLast.totalSize.v))
    /\ results.estimatedTime =
         RenderTime(Elapsed(LeadingNumber(CharsOf(stLast.totalSize.v)),
                            stLast.internetSpeed))

(* C20: after a speed test has settled, on either path, the estimate in    *)
(* the results was written by that run or is absent; it is never the       *)
(* estimate of an earlier run next to the new speed.                       *)
C20_EstimateFromSameRun ==
  stLast.path # "none" =>
    \/ results.estimatedTime \in AbsentEstimate
    \/ stLast.estimateBy = "this"

(***************************************************************************)
(* The three handlers side by side.                                        *)
(***************************************************************************)
(* The fields of results a handler sets. *)
FieldsOf(h) ==
  CASE h = "analyzeFiles" -> {"dockerSteps", "requirements", "totalSize"}
    [] h = "analyzeCompilation" -> {"compilationAnalysis"}
    [] h = "testInternetSpeed" -> {"internetSpeed", "estimatedTime"}

(* The step ends a run of handler h. *)
Settles(h) == inFlight'[h] < inFlight[h]

(* C21: in every interleaving of the three handlers, the step that ends a  *)
(* run of one handler changes only the fields of results that handler      *)
(* sets and leaves every other field as it was, and no other step changes  *)
(* results at all.                                                         *)
C21_OwnFieldsOnly ==
  [][/\ \A h \in Handlers :
          Settles(h) =>
            \A f \in (DOMAIN results) \ FieldsOf(h) : results'[f] = results[f]
     /\ results' # results => \E h \in Handlers : Settles(h)]_vars

C21_Witness ==
  /\ results.dockerSteps # JUndefined
  /\ results.totalSize # JUndefined
  /\ results.compilationAnalysis # JUndefined
  /\ results.internetSpeed # NoNumber
  /\ inFlight = NoneInFlight

(* C22: a handler's flag is set exactly while a run of it is in flight,    *)
(* and the button it disables lets no second run start: at most one run of *)
(* each handler is in flight, while runs of different handlers overlap.    *)
C22_OneRunPerHandler ==
  /\ \A h \in Handlers : inFlight[h] \in {0, 1}
  /\ isAnalyzing <=> inFlight["analyzeFiles"] = 1
  /\ isAnalyzingCompilation <=> inFlight["analyzeCompilation"] = 1
  /\ isTestingSpeed <=> inFlight["testInternetSpeed"] = 1

C22_Witness ==
  /\ isAnalyzing
  /\ isAnalyzingCompilation
  /\ isTestingSpeed
  /\ \A h \in Handlers : inFlight[h] = 1

(* The totalSize is a string that starts with a number. *)
HasNumericPrefix(totalSize) ==
  /\ totalSize.k = "str"
  /\ IsFinite(LeadingNumber(CharsOf(totalSize.v)))

(* C24: when a speed test settles on the measured path while results holds *)
(* a totalSize with a numeric prefix, the estimate it stores is the one    *)
(* computed from that totalSize, also when analyzeFiles stored the         *)
(* totalSize after the speed test was started.                             *)
C24_EstimateFromHeldTotalSize ==
  [][(/\ Settles("testInternetSpeed")
      /\ stLast'.path = "try"
      /\ HasNumericPrefix(results.totalSize))
     => results'.estimatedTime =
          EstimatedTime(results.totalSize, stLast'.internetSpeed)]_vars

(* C25: a run of analyzeFiles with both files starts analyzeRequirements   *)
(* only after analyzeDockerfile has settled, and changes results in one    *)
(* step, its last, which stores the steps together with the requirements   *)
(* and the totalSize of the same run; when reading a file fails, results   *)
(* stays as it was.                                                        *)
C25_PublishedTogether ==
  [][/\ (afPc' # afPc /\ afPc' = "analyzeRequirements"
            /\ afFiles.dockerFile # "null")
         => afNew.dockerSteps # JUndefined
     /\ (afPc' # afPc /\ results' # results) =>
          /\ Settles("analyzeFiles")
          /\ (afFiles.dockerFile # "null" /\ afFiles.requirementsFile # "null")
              => /\ afPc = "analyzeRequirements"
                 /\ results'.dockerSteps = afNew.dockerSteps
                 /\ results'.requirements # JUndefined
                 /\ results'.totalSize # JUndefined
     /\ (afPc \in {"dockerFile.text", "requirementsFile.text"}
            /\ afPc' = "idle")
         => results' = results]_vars

C25_Witness ==
  /\ runs = 1
  /\ afPc = "idle"
  /\ dockerFile # "null"
  /\ requirementsFile # "null"
  /\ results.dockerSteps # JUndefined
  /\ results.requirements # JUndefined
  /\ results.totalSize # JUndefined

(* C26: an estimate in seconds shows fewer than 60 of them; an estimate in *)
(* minutes and seconds shows at least 1 minute and a whole number of       *)
(* seconds from 0 to 59.                                                   *)
C26_SecondsBelowSixty ==
  LET e == results.estimatedTime
  IN /\ (e.form = "seconds" /\ IsFinite(e.sec)) =>
          /\ IsInteger(e.sec)
          /\ NumLess(e.sec, Fin(60, 1))
     /\ (e.form = "minsec" /\ IsFinite(e.sec) /\ IsFinite(e.min)) =>
          /\ IsInteger(e.min)
          /\ IsInteger(e.sec)
          /\ ~NumLess(e.min, Fin(1, 1))
          /\ ~NumLess(e.sec, Fin(0, 1))
          /\ NumLess(e.sec, Fin(60, 1))

(* C27: the estimate stored by a measured run is the rendering of          *)
(* (sizeInMB * 8) / internetSpeed for the internetSpeed stored with it,    *)
(* the speed rounded to one decimal.                                       *)
C27_EstimateFromStoredSpeed ==
  (MeasuredWithSize /\ IsFinite(SizeInMB(stLast.totalSize))) =>
    results.estimatedTime =
      RenderTime(Elapsed(SizeInMB(stLast.totalSize), results.internetSpeed))

(***************************************************************************)
(* Progress.  An await inside a handler resumes when its promise resolves  *)
(* or rejects; under LiveSpec every pending await of each handler does.    *)
(***************************************************************************)
(* What an analysis operation settles with when it takes its fallback. *)
FallbackOutcome(op) ==
  IF genAI THEN OnTransportError(op) ELSE OnNoCredential(op)

(* Some await of analyzeFiles settles.  For the awaits of the analysis     *)
(* operations the fallback outcome, one of ServiceOutcomes, is listed      *)
(* first.                                                                  *)
AfAwaitSettles ==
  \/ AfDockerTextResolves
  \/ AfDockerTextRejects
  \/ AfRequirementsTextResolves
  \/ AfRequirementsTextRejects
  \/ AfAnalyzeDockerfileSettles(FallbackOutcome("analyzeDockerfile"))
  \/ AfAnalyzeRequirementsSettles(FallbackOutcome("analyzeRequirements"))
  \/ /\ afPc = "analyzeDockerfile"
     /\ \E outcome \in ServiceOutcomes("analyzeDockerfile") :
           AfAnalyzeDockerfileSettles(outcome)
  \/ /\ afPc = "analyzeRequirements"
     /\ \E outcome \in ServiceOutcomes("analyzeRequirements") :
           AfAnalyzeRequirementsSettles(outcome)

(* Some await of analyzeCompilation settles. *)
AcAwaitSettles ==
  \/ AcDockerTextResolves
  \/ AcDockerTextRejects
  \/ AcRequirementsTextResolves
  \/ AcRequirementsTextRejects
  \/ AcAnalyzeCompilationTimeSettles(
       FallbackOutcome("analyzeCompilationTime"))
  \/ /\ acPc = "analyzeCompilationTime"
     /\ \E outcome \in ServiceOutcomes("analyzeCompilationTime") :
           AcAnalyzeCompilationTimeSettles(outcome)

(* The await of fetch settles. *)
StAwaitSettles ==
  \/ \E r \in Randoms : FetchRejects(r)
  \/ \E r \in Randoms : \E status \in HttpStatuses :
        FetchResolvesReplaceThrows(r, status)
  \/ \E ms \in Durations : \E status \in HttpStatuses :
        FetchResolves(ms, status)

(* Bound: the number of handler runs in a session where progress is       *)
(* checked.                                                                *)
MaxLiveRuns == 2

(* The steps of Next, with at most MaxLiveRuns handler runs. *)
LiveNext ==
  \/ \E type \in {"docker", "requirements"} : SelectFile(type)
  \/ runs < MaxLiveRuns /\ AnalyzeFilesClick
  \/ runs < MaxLiveRuns /\ AnalyzeCompilationClick
  \/ runs < MaxLiveRuns /\ TestInternetSpeedClick
  \/ AfAwaitSettles
  \/ AcAwaitSettles
  \/ StAwaitSettles

LiveSpec ==
  /\ Init
  /\ [][LiveNext]_vars
  /\ WF_vars(AfAwaitSettles)
  /\ WF_vars(AcAwaitSettles)
  /\ WF_vars(StAwaitSettles)

(* C23: when every pending await resolves or rejects in the end, a handler *)
(* that was started gets back to idle with its flag cleared, whether it    *)
(* stored a result, a fallback, or caught an error; and a flag is set only *)
(* while its handler stands at an await.                                   *)
C23_BackToIdle ==
  /\ isAnalyzing ~> (~isAnalyzing /\ afPc = "idle")
  /\ isAnalyzingCompilation ~> (~isAnalyzingCompilation /\ acPc = "idle")
  /\ isTestingSpeed ~> (~isTestingSpeed /\ stPc = "idle")
  /\ [](/\ isAnalyzing <=> afPc # "idle"
        /\ isAnalyzingCompilation <=> acPc # "idle"
        /\ isTestingSpeed <=> stPc # "idle")

C23_Witness ==
  /\ runs = MaxLiveRuns
  /\ results = EmptyResults
  /\ ~isAnalyzing
  /\ ~isAnalyzingCompilation
  /\ ~isTestingSpeed
  /\ afPc = "idle"
  /\ acPc = "idle"
  /\ stPc = "idle"

(***************************************************************************)
(* The fallback datasets as the operations return them.                    *)
(***************************************************************************)
(* The tenths in the decimal with one digit after its point that a size   *)
(* string such as 15.8 MB starts with.                                     *)
TenthsOf(str) ==
  LET chars == KeepDigitsAndPoints(CharsOf(str))
      int == TakeWhile(chars, Digits)
  IN 10 * DigitsValue(int, 0) + DigitValue(chars[Len(int) + 2])

RECURSIVE SumOfSizes(_)
SumOfSizes(items) ==
  IF items = <<>> THEN 0
  ELSE TenthsOf(Member(items[1], "estimatedSize").v) + SumOfSizes(Tail(items))

NonEmptyArray(val) == val.k = "arr" /\ Len(val.v) > 0

(* C28: the dataset an operation returns when it takes its fallback passes *)
(* that operation's shape test and has every required field; the recipe   *)
(* fallback has 7 elements, the manifest fallback has items and a          *)
(* non-empty totalSize of 51.0 MB that is the sum of its five item sizes,  *)
(* and the compilation fallback has a non-empty totalEstimatedTime and     *)
(* both of its sequences.                                                  *)
C28_FallbacksWellFormed ==
  FallbackTaken =>
    /\ ~svcOutcome.threw
    /\ ExpectedShape(svcOp, svcOutcome.value)
    /\ FullyPopulated(svcOp, svcOutcome.value)
    /\ svcOp = "analyzeDockerfile" => Len(svcOutcome.value.v) = 7
    /\ svcOp = "analyzeRequirements" =>
         /\ NonEmptyArray(Member(svcOutcome.value, "requirements"))
         /\ Len(Member(svcOutcome.value, "requirements").v) = 5
         /\ Member(svcOutcome.value, "totalSize") = JStr("51.0 MB")
         /\ SumOfSizes(Member(svcOutcome.value, "requirements").v) =
              TenthsOf(Member(svcOutcome.value, "totalSize").v)
         /\ TenthsOf(Member(svcOutcome.value, "totalSize").v) = 510
    /\ svcOp = "analyzeCompilationTime" =>
         /\ Member(svcOutcome.value, "totalEstimatedTime").k = "str"
         /\ Member(svcOutcome.value, "totalEstimatedTime").v # ""
         /\ NonEmptyArray(Member(svcOutcome.value, "bottlenecks"))
         /\ NonEmptyArray(Member(svcOutcome.value, "recommendations"))

C28_Witness ==
  /\ FallbackTaken
  /\ genAI
  /\ svcOp = "analyzeCompilationTime"
  /\ svcResp.kind = "text"
  /\ ~JSONParse(JsonTextOf(svcResp.text)).ok
  /\ svcOutcome = Return(getFallbackCompilationAnalysis)
  /\ Member(svcOutcome.value, "totalEstimatedTime") = JStr("8-15 minutes")

====
